---- MODULE Spec2Model ----
(***************************************************************************)
(* Model of app.py of Pokemon-finder: the eBay pricing pipeline.           *)
(*                                                                         *)
(* Text (titles, price text, the exclude_terms field) is a tuple of        *)
(* one-character strings.  Money is an integer number of hundredths of the *)
(* currency unit; a Python float that may be NaN is [nan, v].  An average  *)
(* is an exact fraction [present, num, den] of hundredths.  Infinities and *)
(* binary rounding error of floats are outside the modelled price domain.  *)
(***************************************************************************)
EXTENDS Integers, Sequences, FiniteSets, TLC

\* ------------------------------------------------------------------ bounds
\* longest upstream batch a fetch returns in the pipeline
MaxItems == 3
\* largest min_sold_count a caller submits
MaxMinSold == 2
\* longest batch handed to the filters in SpecFilter
MaxBatch == 3
\* longest price sequence over two prices handed to trimmed_mean
MaxLen == 14
\* longest price sequence over three prices handed to trimmed_mean
ShortLen == 6

\* ------------------------------------------------------------------ text
LowerChar(c) ==
    CASE c = "P" -> "p"
      [] c = "S" -> "s"
      [] c = "A" -> "a"
      [] c = "L" -> "l"
      [] c = "O" -> "o"
      [] c = "T" -> "t"
      [] c = "N" -> "n"
      [] OTHER -> c

\* str.lower()
Lower(s) == [i \in 1..Len(s) |-> LowerChar(s[i])]

\* str.strip(): leading and trailing blanks removed
RECURSIVE Strip(_)
Strip(s) ==
    IF s = <<>> THEN s
    ELSE IF s[1] = " " THEN Strip(Tail(s))
    ELSE IF s[Len(s)] = " " THEN Strip(SubSeq(s, 1, Len(s) - 1))
    ELSE s

\* str.split(","): the pieces between commas, empty pieces included
RECURSIVE SplitComma(_)
SplitComma(s) ==
    IF \A i \in 1..Len(s) : s[i] # ","
    THEN <<s>>
    ELSE LET k == CHOOSE i \in 1..Len(s) :
                      s[i] = "," /\ \A j \in 1..(i - 1) : s[j] # ","
         IN  <<SubSeq(s, 1, k - 1)>> \o SplitComma(SubSeq(s, k + 1, Len(s)))

\* the Python operator `term in t` on strings
IsSubstring(term, t) ==
    \E k \in 0..(Len(t) - Len(term)) : SubSeq(t, k + 1, k + Len(term)) = term

NonBlank(t) == Strip(t) # <<>>
StripLowerAll(kept) == [i \in 1..Len(kept) |-> Lower(Strip(kept[i]))]

\* [t.strip().lower() for t in exclude_terms.split(",") if t.strip()]
ParseExclude(exclude_terms) ==
    StripLowerAll(SelectSeq(SplitComma(exclude_terms), NonBlank))

\* contains_disallowed without the .lower() of the title
contains_disallowed_cased(title, disallowed) ==
    \E i \in 1..Len(disallowed) : IsSubstring(disallowed[i], title)

contains_disallowed(title, disallowed) ==
    LET t == Lower(title)
    IN  \E i \in 1..Len(disallowed) : IsSubstring(disallowed[i], t)

\* ------------------------------------------------------------------ floats
NaN == [nan |-> TRUE, v |-> 0]
Num(v) == [nan |-> FALSE, v |-> v]
\* every comparison with NaN is false
FloatGt0(p) == ~p.nan /\ p.v > 0
FloatLe0(p) == ~p.nan /\ p.v <= 0

Digits == <<"0", "1", "2", "3", "4", "5", "6", "7", "8", "9">>
IsDigit(c) == \E i \in 1..10 : Digits[i] = c
DigitVal(c) == (CHOOSE i \in 1..10 : Digits[i] = c) - 1

RECURSIVE DigitsToNat(_)
DigitsToNat(s) ==
    IF s = <<>> THEN 0
    ELSE DigitsToNat(SubSeq(s, 1, Len(s) - 1)) * 10 + DigitVal(s[Len(s)])

RECURSIVE NatToDigits(_)
NatToDigits(n) ==
    IF n < 10 THEN <<Digits[n + 1]>>
    ELSE NatToDigits(n \div 10) \o <<Digits[(n % 10) + 1]>>

\* float(text) on the grammar [sign] digits [. digit [digit]] | [sign] nan,
\* blanks around it ignored; anything else raises ValueError (ok = FALSE).
\* The steps of the conversion are operators of their own, each applied once.
ParseFailed == [ok |-> FALSE, f |-> Num(0)]

FracVal(fp) ==
    IF Len(fp) = 0 THEN 0
    ELSE IF Len(fp) = 1 THEN DigitVal(fp[1]) * 10
    ELSE DigitsToNat(fp)

ParseParts(ip, fp, neg) ==
    IF /\ \A i \in 1..Len(ip) : IsDigit(ip[i])
       /\ \A i \in 1..Len(fp) : IsDigit(fp[i])
       /\ Len(ip) + Len(fp) > 0
       /\ Len(fp) <= 2
    THEN [ok |-> TRUE,
          f |-> Num((IF neg THEN -1 ELSE 1) * (DigitsToNat(ip) * 100 + FracVal(fp)))]
    ELSE ParseFailed

\* the index of the first ".", or one past the end
DotIndex(body) ==
    IF \A i \in 1..Len(body) : body[i] # "." THEN Len(body) + 1
    ELSE CHOOSE i \in 1..Len(body) :
             body[i] = "." /\ \A j \in 1..(i - 1) : body[j] # "."

ParseAt(body, neg, dot) ==
    ParseParts(SubSeq(body, 1, dot - 1), SubSeq(body, dot + 1, Len(body)), neg)

ParseBody(body, neg) ==
    IF Lower(body) = <<"n", "a", "n">> THEN [ok |-> TRUE, f |-> NaN]
    ELSE ParseAt(body, neg, DotIndex(body))

ParseSigned(s) ==
    IF s # <<>> /\ s[1] \in {"-", "+"}
    THEN ParseBody(Tail(s), s[1] = "-")
    ELSE ParseBody(s, FALSE)

ParseFloat(text) == ParseSigned(Strip(text))

\* f"{max_price:.2f}" of a value in hundredths
Format2f(v) ==
    LET mag == IF v < 0 THEN 0 - v ELSE v
        cents == mag % 100
    IN  (IF v < 0 THEN <<"-">> ELSE <<>>)
        \o NatToDigits(mag \div 100)
        \o <<".", Digits[(cents \div 10) + 1], Digits[(cents % 10) + 1]>>

\* the value formatted with no decimal point
MaxPriceParamWhole(max_price) == NatToDigits(max_price)

\* "itemFilter(0).value": f"{max_price:.2f}"
MaxPriceParam(max_price) == Format2f(max_price)

\* ------------------------------------------------------------------ items
\* A JSON list-valued entry of an item: present with a first element
\* ("ok"), absent ("missing"), or present and empty ("empty").
Field(shape, val) == [shape |-> shape, val |-> val]

\* dict.get(name, [default])[0] of an entry that is not the empty list
First(field, default) == IF field.shape = "missing" THEN default ELSE field.val

\* the {} that .get(name, [{}])[0] yields for an absent sellingStatus:
\* no sellingState, no @currencyId, no __value__
EmptySelling ==
    [sellingState |-> "", currencyId |-> "", value |-> Field("missing", <<>>)]

\* price_obj.get("__value__", "0")
PriceText(price_obj) == First(price_obj.value, <<"0">>)

EndedWithSales == "EndedWithSales"

Skip == [act |-> "skip", price |-> 0]
Raise == [act |-> "raise", price |-> 0]

\* if price > 0: prices.append(price), after float() did not raise
CompletedPrice(parsed) ==
    IF ~parsed.ok THEN Skip
    ELSE IF FloatGt0(parsed.f) THEN [act |-> "keep", price |-> parsed.f.v]
    ELSE Skip

\* the sellingState and @currencyId tests, then the price
CompletedSelling(selling, currency) ==
    IF selling.sellingState # EndedWithSales THEN Skip
    ELSE IF selling.currencyId # currency THEN Skip
    ELSE CompletedPrice(ParseFloat(PriceText(selling)))

\* One pass of the loop body of get_completed_prices: "raise" (IndexError
\* of [0] on an empty list), "skip" (continue, or price not > 0) or "keep".
CompletedItem(it, currency, disallowed) ==
    IF it.title.shape = "empty" THEN Raise
    ELSE IF contains_disallowed(First(it.title, <<>>), disallowed) THEN Skip
    ELSE IF it.sellingStatus.shape = "empty" THEN Raise
    ELSE CompletedSelling(First(it.sellingStatus, EmptySelling), currency)

CompletedAcc(prices, r) == IF r.act = "keep" THEN Append(prices, r.price) ELSE prices

RECURSIVE CompletedLoop(_, _, _, _, _)
CompletedFrom(items, i, currency, disallowed, prices, r) ==
    IF r.act = "raise" THEN [raised |-> TRUE, out |-> <<>>]
    ELSE CompletedLoop(items, i + 1, currency, disallowed, CompletedAcc(prices, r))

CompletedLoop(items, i, currency, disallowed, prices) ==
    IF i > Len(items) THEN [raised |-> FALSE, out |-> prices]
    ELSE CompletedFrom(items, i, currency, disallowed, prices,
                       CompletedItem(items[i], currency, disallowed))

\* get_completed_prices on the items of a successful response
get_completed_prices(items, currency, disallowed) ==
    CompletedLoop(items, 1, currency, disallowed, <<>>)

NoHit == [id |-> "", title |-> <<>>, price |-> Num(0), url |-> ""]
SkipHit == [act |-> "skip", hit |-> NoHit]
RaiseHit == [act |-> "raise", hit |-> NoHit]

\* the price test, then viewItemURL and itemId, then results.append
ActivePrice(it, parsed) ==
    IF ~parsed.ok THEN SkipHit
    ELSE IF FloatLe0(parsed.f) THEN SkipHit
    ELSE IF it.viewItemURL.shape = "empty" \/ it.itemId.shape = "empty"
         THEN RaiseHit
    ELSE [act |-> "keep",
          hit |-> [id |-> First(it.itemId, ""),
                   title |-> First(it.title, <<>>),
                   price |-> parsed.f,
                   url |-> First(it.viewItemURL, "")]]

\* the @currencyId test, then the price
ActiveSelling(it, price_obj, currency) ==
    IF price_obj.currencyId # currency THEN SkipHit
    ELSE ActivePrice(it, ParseFloat(PriceText(price_obj)))

\* One pass of the loop body of get_active_under.
ActiveItem(it, currency, disallowed) ==
    IF it.title.shape = "empty" THEN RaiseHit
    ELSE IF contains_disallowed(First(it.title, <<>>), disallowed) THEN SkipHit
    ELSE IF it.sellingStatus.shape = "empty" THEN RaiseHit
    ELSE ActiveSelling(it, First(it.sellingStatus, EmptySelling), currency)

ActiveAcc(results, r) == IF r.act = "keep" THEN Append(results, r.hit) ELSE results

RECURSIVE ActiveLoop(_, _, _, _, _)
ActiveFrom(items, i, currency, disallowed, results, r) ==
    IF r.act = "raise" THEN [raised |-> TRUE, out |-> <<>>]
    ELSE ActiveLoop(items, i + 1, currency, disallowed, ActiveAcc(results, r))

ActiveLoop(items, i, currency, disallowed, results) ==
    IF i > Len(items) THEN [raised |-> FALSE, out |-> results]
    ELSE ActiveFrom(items, i, currency, disallowed, results,
                    ActiveItem(items[i], currency, disallowed))

\* get_active_under on the items of a successful response
get_active_under(items, currency, disallowed) ==
    ActiveLoop(items, 1, currency, disallowed, <<>>)

\* ------------------------------------------------------------------ estimator
\* floor(n * 0.15) is floor(n * TrimPercent / 100)
TrimPercent == 15
\* below this count the median is used
MedianBelow == 6
\* the smallest core that is averaged
MinCore == 3

Absent == [present |-> FALSE, num |-> 0, den |-> 1]
Rat(num, den) == [present |-> TRUE, num |-> num, den |-> den]

RECURSIVE Insert(_, _)
Insert(x, s) ==
    IF s = <<>> THEN <<x>>
    ELSE IF x <= s[1] THEN <<x>> \o s
    ELSE <<s[1]>> \o Insert(x, Tail(s))

\* sorted(prices)
RECURSIVE Sorted(_)
Sorted(s) == IF s = <<>> THEN <<>> ELSE Insert(s[1], Sorted(Tail(s)))

RECURSIVE Sum(_)
Sum(s) == IF s = <<>> THEN 0 ELSE s[1] + Sum(Tail(s))

\* statistics.median of a sorted, non-empty sequence
Median(s) ==
    LET n == Len(s)
    IN  IF n % 2 = 1 THEN Rat(s[(n + 1) \div 2], 1)
        ELSE Rat(s[n \div 2] + s[(n \div 2) + 1], 2)

Max(a, b) == IF a >= b THEN a ELSE b

\* prices_sorted[trim:n-trim] if (n-2*trim)>=3 else prices_sorted
Core(prices_sorted, n, trim) ==
    IF n - 2 * trim >= MinCore
    THEN SubSeq(prices_sorted, trim + 1, n - trim)
    ELSE prices_sorted

\* sum(core)/len(core) if core else statistics.median(prices_sorted)
MeanOrMedian(core, prices_sorted) ==
    IF core # <<>> THEN Rat(Sum(core), Len(core)) ELSE Median(prices_sorted)

\* floor(n * 0.15), the max(1, ...) left out
TrimNoMin(n) == (n * TrimPercent) \div 100

\* trim = max(1, math.floor(n*0.15)); the product n*0.15 rounds to the exact
\* value whenever 15n/100 is a whole number, so the floor is that of 15n/100
Trim(n) == Max(1, (n * TrimPercent) \div 100)

\* lines 71-76 of trimmed_mean, on the sorted prices
EstimateSorted(prices_sorted, n) ==
    IF n < MedianBelow THEN Median(prices_sorted)
    ELSE MeanOrMedian(Core(prices_sorted, n, Trim(n)), prices_sorted)

trimmed_mean(prices) ==
    IF prices = <<>> THEN Absent
    ELSE EstimateSorted(Sorted(prices), Len(prices))

\* ------------------------------------------------------------------ state
VARIABLES
    EBAY_APP_ID,        \* TRUE when the credential is configured
    pc,                 \* "idle", "completed_wait", "active_wait", "returned"
    entry,              \* "dashboard" or "api": the handler that is running
    form,               \* the caller's fields, numbers already parsed
    disallowed,         \* the parsed exclude_terms
    calls,              \* the fetch events of this invocation, in order
    max_price_param,    \* the MaxPrice text sent with the active request
    served_within_max,  \* the active response held only records <= MaxPrice
    sold_prices,        \* local of the handler
    avg_price,          \* local of the handler
    threshold,          \* local of the handler, [present, v]
    results,            \* the result handed to the caller
    outcome,            \* how the invocation ended
    f_pc, f_mode, f_items, f_currency, f_exclude, f_out,
    est_pc, est_in, est_out

pipeVars == <<EBAY_APP_ID, pc, entry, form, disallowed, calls, max_price_param,
              served_within_max, sold_prices, avg_price, threshold, results,
              outcome>>
filterVars == <<f_pc, f_mode, f_items, f_currency, f_exclude, f_out>>
estVars == <<est_pc, est_in, est_out>>
vars == <<pipeVars, filterVars, estVars>>

DEFAULT_CURRENCY == "GBP"

\* the discount percentages a caller submits
DiscountInputs == {0, 40, 100}

\* exclude_terms as submitted: " PSA, ,lot"
ExcludeText == <<" ", "P", "S", "A", ",", " ", ",", "l", "o", "t">>

NoThreshold == [present |-> FALSE, v |-> 0]
NoResults ==
    [present |-> FALSE, note |-> FALSE, sold_count |-> 0, avg_price |-> Absent,
     threshold |-> NoThreshold, hits |-> <<>>]
NoForm ==
    [min_sold |-> 0, discount_percent |-> 0, currency |-> "",
     exclude_terms |-> <<>>]

Forms ==
    [min_sold : (-1)..MaxMinSold, discount_percent : DiscountInputs,
     currency : {DEFAULT_CURRENCY}, exclude_terms : {ExcludeText}]

\* ---- sample upstream records
Selling(state, cur, text) ==
    Field("ok", [sellingState |-> state, currencyId |-> cur,
                 value |-> Field("ok", text)])

Item(title, selling, id) ==
    [title |-> title, sellingStatus |-> selling,
     viewItemURL |-> Field("ok", "u"), itemId |-> Field("ok", id)]

TitleCard == Field("ok", <<"h", "o", "l", "o">>)
TitleGraded == Field("ok", <<"P", "S", "A", "9">>)
TitleLot == Field("ok", <<"j", "o", "b", " ", "L", "o", "t">>)

SoldA == Item(TitleCard, Selling(EndedWithSales, "GBP", <<"1", "0", "0">>), "s1")
SoldB == Item(TitleCard, Selling(EndedWithSales, "GBP", <<"3", "0", "0", ".", "5">>), "s2")
SoldEmptyTitle ==
    Item(Field("empty", <<>>), Selling(EndedWithSales, "GBP", <<"1", "0", "0">>), "s3")
SoldUsd == Item(TitleCard, Selling(EndedWithSales, "USD", <<"9", "0">>), "s4")

SoldSamples == {SoldA, SoldB, SoldEmptyTitle, SoldUsd}

ActiveCheap == Item(TitleCard, Selling("Active", "GBP", <<"5", "0", ".", "2", "5">>), "a1")
ActiveDear == Item(TitleCard, Selling("Active", "GBP", <<"5", "0", "0">>), "a2")
ActiveNaN == Item(TitleCard, Selling("Active", "GBP", <<"N", "a", "N">>), "a3")
ActiveGraded == Item(TitleGraded, Selling("Active", "GBP", <<"2", "0">>), "a4")

ActiveSamples == {ActiveCheap, ActiveDear, ActiveNaN, ActiveGraded}

Batches(samples, n) == UNION {[1..k -> samples] : k \in 0..n}

\* ------------------------------------------------------------------ pipeline
\* round(x, 2) of the fraction num/den of hundredths: to the nearest
\* hundredth, ties to even
Round2(num, den) ==
    LET q == num \div den
        r == num % den
    IN  IF 2 * r < den THEN q
        ELSE IF 2 * r > den THEN q + 1
        ELSE IF q % 2 = 0 THEN q ELSE q + 1

\* round(avg_price * (1 - discount_percent/100.0), 2)
Threshold(avg, discount_percent) ==
    Round2(avg.num * (100 - discount_percent), avg.den * 100)

\* the test with `and` in place of `or`
InsufficientBoth(avg, prices, min_sold) ==
    (~avg.present \/ avg.num = 0) /\ Len(prices) < min_sold

\* the test on the count alone
InsufficientCountOnly(avg, prices, min_sold) == Len(prices) < min_sold

\* not avg_price or len(sold_prices) < min_sold
Insufficient(avg, prices, min_sold) ==
    (~avg.present \/ avg.num = 0) \/ Len(prices) < min_sold

\* if discount_percent <= 0 or discount_percent >= 100: raise ValueError
DiscountRejected(discount_percent) ==
    discount_percent <= 0 \/ discount_percent >= 100

\* an except clause that answers with the insufficient-data result
OnExceptionNote(e, res) ==
    [outcome |-> "result",
     results |-> [NoResults EXCEPT !.present = TRUE, !.note = TRUE]]

\* except Exception: the dashboard flashes the message and renders with the
\* results it has (None), api_search answers {"ok": False, "error": ...}, 400
OnException(e, res) == [outcome |-> "error", results |-> res]

\* the note branch of both handlers
NoteResult(prices, avg) ==
    [present |-> TRUE, note |-> TRUE, sold_count |-> Len(prices),
     avg_price |-> avg, threshold |-> NoThreshold, hits |-> <<>>]

\* the populated result of both handlers
HitsResult(prices, avg, thr, hits) ==
    [present |-> TRUE, note |-> FALSE, sold_count |-> Len(prices),
     avg_price |-> Rat(Round2(avg.num, avg.den), 1),
     threshold |-> [present |-> TRUE, v |-> thr], hits |-> hits]

PipeIdle ==
    /\ pc = "idle"
    /\ entry = "none"
    /\ form = NoForm
    /\ disallowed = <<>>
    /\ calls = <<>>
    /\ max_price_param = <<>>
    /\ served_within_max = FALSE
    /\ sold_prices = <<>>
    /\ avg_price = Absent
    /\ threshold = NoThreshold
    /\ results = NoResults
    /\ outcome = "none"

FilterOff ==
    /\ f_pc = "off" /\ f_mode = "none" /\ f_items = <<>> /\ f_currency = ""
    /\ f_exclude = <<>> /\ f_out = [raised |-> FALSE, out |-> <<>>]

EstOff == est_pc = "off" /\ est_in = <<>> /\ est_out = Absent

Init == EBAY_APP_ID \in BOOLEAN /\ PipeIdle /\ FilterOff /\ EstOff

\* A handler starts with fresh locals: nothing is shared between invocations.
Begin(e, f) ==
    /\ pc \in {"idle", "returned"}
    /\ entry' = e
    /\ form' = f
    /\ max_price_param' = <<>>
    /\ served_within_max' = FALSE
    /\ sold_prices' = <<>>
    /\ avg_price' = Absent
    /\ threshold' = NoThreshold
    /\ results' = NoResults
    /\ UNCHANGED <<EBAY_APP_ID, filterVars, estVars>>

\* the handler returns before any requests.get
Reject(how) == pc' = "returned" /\ outcome' = how /\ calls' = <<>>

\* the call of get_completed_prices reaches its requests.get
FirstFetch ==
    pc' = "completed_wait" /\ outcome' = "none" /\ calls' = <<"completed:call">>

\* POST /dashboard, lines 233-253: the credential test, the form, the
\* discount test, then the first fetch
DashboardPost ==
    \E f \in Forms :
        /\ Begin("dashboard", f)
        /\ IF ~EBAY_APP_ID
           THEN disallowed' = <<>> /\ Reject("config_error")
           ELSE /\ disallowed' = ParseExclude(f.exclude_terms)
                /\ IF DiscountRejected(f.discount_percent)
                   THEN Reject("input_error")
                   ELSE FirstFetch

\* POST /api/search with a valid key, lines 283-298: the body, the
\* credential test, then the first fetch
ApiSearch ==
    \E f \in Forms :
        /\ Begin("api", f)
        /\ disallowed' = ParseExclude(f.exclude_terms)
        /\ IF ~EBAY_APP_ID THEN Reject("config_error") ELSE FirstFetch

Fail(event) ==
    /\ pc' = "returned"
    /\ calls' = Append(calls, event)
    /\ outcome' = OnException(entry, results).outcome
    /\ results' = OnException(entry, results).results

\* The completed-sales request fails (requests.get raises, the timeout of
\* 25 s passes, or raise_for_status raises): the exception leaves the handler.
CompletedFails ==
    /\ pc = "completed_wait"
    /\ Fail("completed:error")
    /\ UNCHANGED <<EBAY_APP_ID, entry, form, disallowed, max_price_param,
                   served_within_max, sold_prices, avg_price, threshold,
                   filterVars, estVars>>

\* lines 256-260 and 300-303: the note result, or the threshold and the
\* second requests.get
Decide(prices, avg) ==
    /\ sold_prices' = prices
    /\ avg_price' = avg
    /\ IF Insufficient(avg, prices, form.min_sold)
       THEN /\ results' = NoteResult(prices, avg)
            /\ outcome' = "result"
            /\ pc' = "returned"
            /\ calls' = Append(calls, "completed:return")
            /\ UNCHANGED <<threshold, max_price_param>>
       ELSE /\ threshold' =
                 [present |-> TRUE, v |-> Threshold(avg, form.discount_percent)]
            /\ max_price_param' = MaxPriceParam(threshold'.v)
            /\ pc' = "active_wait"
            /\ calls' = calls \o <<"completed:return", "active:call">>
            /\ UNCHANGED <<results, outcome>>

\* avg_price = trimmed_mean(sold_prices) if sold_prices else None
AfterCompleted(got) ==
    IF got.raised
    THEN /\ Fail("completed:raise")
         /\ UNCHANGED <<sold_prices, avg_price, threshold, max_price_param>>
    ELSE Decide(got.out, IF got.out # <<>> THEN trimmed_mean(got.out) ELSE Absent)

\* The completed-sales response arrives: the rest of get_completed_prices,
\* trimmed_mean, the decision, and the second requests.get or the return.
CompletedReturns ==
    /\ pc = "completed_wait"
    /\ \E items \in Batches(SoldSamples, MaxItems) :
         AfterCompleted(get_completed_prices(items, form.currency, disallowed))
    /\ UNCHANGED <<EBAY_APP_ID, entry, form, disallowed, served_within_max,
                   filterVars, estVars>>

\* The active-listings request fails.
ActiveFails ==
    /\ pc = "active_wait"
    /\ Fail("active:error")
    /\ UNCHANGED <<EBAY_APP_ID, entry, form, disallowed, max_price_param,
                   served_within_max, sold_prices, avg_price, threshold,
                   filterVars, estVars>>

\* whether a record's price is a number no greater than the MaxPrice sent
NoGreater(p, m) == p.ok /\ m.ok /\ ~p.f.nan /\ ~m.f.nan /\ p.f.v <= m.f.v

WithinMax(it, param) ==
    NoGreater(ParseFloat(PriceText(First(it.sellingStatus, EmptySelling))),
              ParseFloat(param))

\* line 261 and line 304: the populated result
AfterActive(got) ==
    IF got.raised
    THEN Fail("active:raise")
    ELSE /\ results' = HitsResult(sold_prices, avg_price, threshold.v, got.out)
         /\ outcome' = "result"
         /\ pc' = "returned"
         /\ calls' = Append(calls, "active:return")

\* The active-listings response arrives: the rest of get_active_under and
\* the return of the populated result.
ActiveReturns ==
    /\ pc = "active_wait"
    /\ \E items \in Batches(ActiveSamples, MaxItems) :
         /\ served_within_max' =
                \A i \in 1..Len(items) : WithinMax(items[i], max_price_param)
         /\ AfterActive(get_active_under(items, form.currency, disallowed))
    /\ UNCHANGED <<EBAY_APP_ID, entry, form, disallowed, max_price_param,
                   sold_prices, avg_price, threshold, filterVars, estVars>>

Next ==
    \/ DashboardPost
    \/ ApiSearch
    \/ CompletedFails
    \/ CompletedReturns
    \/ ActiveFails
    \/ ActiveReturns

Spec == Init /\ [][Next]_vars

\* ------------------------------------------------------------------ filters
\* The two fetch functions applied to one upstream batch.
TitleMissing == Field("missing", <<>>)
Ended(cur, text) == Selling(EndedWithSales, cur, text)

FilterSamples ==
    { SoldA, SoldB, SoldUsd, SoldEmptyTitle,
      Item(TitleGraded, Ended("GBP", <<"2", "0">>), "f4"),
      Item(TitleLot, Ended("GBP", <<"3", "0">>), "f5"),
      Item(TitleCard, Ended("GBP", <<"N", "a", "N">>), "f6"),
      Item(TitleCard, Ended("GBP", <<"a", "b", "c">>), "f7"),
      Item(TitleCard, Ended("GBP", <<"0">>), "f8"),
      Item(TitleMissing, Ended("GBP", <<"7", "0">>), "f10"),
      Item(TitleCard, Field("missing", EmptySelling), "f11"),
      Item(TitleCard, Selling("EndedWithoutSales", "GBP", <<"8", "0">>), "f12") }

\* exclude_terms as submitted: " PSA, ,lot" and the empty field
ExcludeTexts == {ExcludeText, <<>>}

InitFilter ==
    /\ EBAY_APP_ID = TRUE /\ PipeIdle /\ EstOff
    /\ f_pc = "in"
    /\ f_mode \in {"completed", "active"}
    /\ f_items \in Batches(FilterSamples, MaxBatch)
    /\ f_currency \in {"GBP", "USD"}
    /\ f_exclude \in ExcludeTexts
    /\ f_out = [raised |-> FALSE, out |-> <<>>]

FilterCompleted ==
    /\ f_pc = "in" /\ f_mode = "completed"
    /\ f_out' = get_completed_prices(f_items, f_currency, ParseExclude(f_exclude))
    /\ f_pc' = "out"
    /\ UNCHANGED <<pipeVars, estVars, f_mode, f_items, f_currency, f_exclude>>

FilterActive ==
    /\ f_pc = "in" /\ f_mode = "active"
    /\ f_out' = get_active_under(f_items, f_currency, ParseExclude(f_exclude))
    /\ f_pc' = "out"
    /\ UNCHANGED <<pipeVars, estVars, f_mode, f_items, f_currency, f_exclude>>

NextFilter == FilterCompleted \/ FilterActive

SpecFilter == InitFilter /\ [][NextFilter]_vars

\* ------------------------------------------------------------------ estimator runs
\* trimmed_mean applied to one price sequence.
PricesTwo == {1000, 10000}
PricesThree == {1000, 2050, 10000}

InitEst ==
    /\ EBAY_APP_ID = TRUE /\ PipeIdle /\ FilterOff
    /\ est_pc = "in"
    /\ est_in \in Batches(PricesTwo, MaxLen) \cup Batches(PricesThree, ShortLen)
    /\ est_out = Absent

Estimate ==
    /\ est_pc = "in"
    /\ est_out' = trimmed_mean(est_in)
    /\ est_pc' = "out"
    /\ UNCHANGED <<pipeVars, filterVars, est_in>>

NextEst == Estimate

SpecEst == InitEst /\ [][NextEst]_vars

\* ------------------------------------------------------------------ claims
Returned == pc = "returned" /\ outcome = "result"
Count(event) == Cardinality({i \in DOMAIN calls : calls[i] = event})
Sufficient == avg_price.present /\ Len(sold_prices) >= form.min_sold

\* C1: in every result a handler returns, hits is non-empty only if
\* soldCount >= minSoldCount and averagePrice is present; when that does not
\* hold, threshold is absent, hits is empty and note is set; and a result
\* with threshold or hits populated has no note.
C1_HitsOnlyWhenSufficient ==
    Returned =>
        /\ results.present
        /\ results.sold_count = Len(sold_prices)
        /\ (results.hits # <<>> =>
               results.sold_count >= form.min_sold /\ results.avg_price.present)
        /\ (~(results.sold_count >= form.min_sold /\ results.avg_price.present) =>
               ~results.threshold.present /\ results.hits = <<>> /\ results.note)
        /\ ((results.threshold.present \/ results.hits # <<>>) => ~results.note)

\* a populated result: enough sold prices for a positive minimum, hits, no note
C1_Witness ==
    Returned /\ results.hits # <<>> /\ ~results.note /\ form.min_sold > 0

\* C2: the active-listings fetch is issued at most once, directly after the
\* completed-sales fetch has returned, and exactly when the estimate is
\* present and soldCount >= minSoldCount; the completed-sales fetch is issued
\* at most once and first; at most one fetch is outstanding at any time.
C2_ActiveOnceAfterCompleted ==
    /\ Count("completed:call") <= 1
    /\ Count("active:call") <= 1
    /\ \A i \in DOMAIN calls :
           /\ (calls[i] = "completed:call" => i = 1)
           /\ (calls[i] = "active:call" =>
                  i = 3 /\ calls[2] = "completed:return" /\ Sufficient)
    /\ (Count("completed:return") = 1 => (Sufficient <=> Count("active:call") = 1))
    /\ Count("completed:call") + Count("active:call")
         - (Len(calls) - Count("completed:call") - Count("active:call")) \in {0, 1}

C2_Witness ==
    calls = <<"completed:call", "completed:return", "active:call", "active:return">>

\* C3: with the credential configured, an invocation of either entry point
\* whose discountPercent is <= 0 or >= 100 is rejected as an input error and
\* performs no fetch.
C3_InvalidDiscountRejected ==
    ( /\ entry \in {"dashboard", "api"}
      /\ EBAY_APP_ID
      /\ (form.discount_percent <= 0 \/ form.discount_percent >= 100) ) =>
        /\ calls = <<>>
        /\ pc = "returned"
        /\ outcome = "input_error"

\* C4 as claimed: every hit of a returned result (one whose price is a
\* number) is priced no higher than the result's threshold, whatever records
\* the upstream search returned.
C4_HitsUnderThreshold ==
    (Returned /\ results.threshold.present) =>
        \A i \in DOMAIN results.hits :
            results.hits[i].price.nan
            \/ results.hits[i].price.v <= results.threshold.v

\* C4 as amended: when every record of the active response carries a numeric
\* price no greater than the MaxPrice the request sent, every hit is priced
\* no higher than the threshold.
C4_HitsUnderThresholdWhenServed ==
    (Returned /\ results.threshold.present /\ served_within_max) =>
        \A i \in DOMAIN results.hits :
            /\ ~results.hits[i].price.nan
            /\ results.hits[i].price.v <= results.threshold.v

C4_Witness ==
    Returned /\ served_within_max /\ Len(results.hits) >= 2

\* C5: every price get_completed_prices returns and every listing
\* get_active_under returns has a price strictly greater than 0 (a
\* not-a-number price is rejected).
C5_PricesPositive ==
    (f_pc = "out" /\ ~f_out.raised) =>
        \A i \in DOMAIN f_out.out :
            IF f_mode = "completed"
            THEN f_out.out[i] > 0
            ELSE ~f_out.out[i].price.nan /\ f_out.out[i].price.v > 0

\* ---- the filter contract, stated apart from the loops that implement it
RefTitle(it) == IF it.title.shape = "ok" THEN it.title.val ELSE <<>>
RefSelling(it) ==
    IF it.sellingStatus.shape = "ok" THEN it.sellingStatus.val ELSE EmptySelling

\* the trimmed, lower-cased, non-empty pieces of the text between commas
RefTerms(text) ==
    { Lower(Strip(SubSeq(text, a, b))) :
        <<a, b>> \in { ab \in (1..(Len(text) + 1)) \X (0..Len(text)) :
                         /\ ab[1] <= ab[2] + 1
                         /\ (ab[1] = 1 \/ text[ab[1] - 1] = ",")
                         /\ (ab[2] = Len(text) \/ text[ab[2] + 1] = ",")
                         /\ \A j \in ab[1]..ab[2] : text[j] # "," } }
    \ {<<>>}

RefTitleHit(title, terms) ==
    \E t \in terms : \E k \in 0..(Len(title) - Len(t)) :
        \A j \in 1..Len(t) : LowerChar(title[k + j]) = t[j]

\* the record is to be excluded whatever its price: wrong currency, or a
\* disallowed term in its title
RefExcluded(it) ==
    \/ RefSelling(it).currencyId # f_currency
    \/ RefTitleHit(RefTitle(it), RefTerms(f_exclude))

RefPriceText(it) ==
    IF RefSelling(it).value.shape = "ok" THEN RefSelling(it).value.val ELSE <<"0">>

\* the record is well formed and passes every check of the mode
RefPasses(it) ==
    /\ it.title.shape = "ok"
    /\ it.sellingStatus.shape = "ok"
    /\ ~RefExcluded(it)
    /\ (f_mode = "completed" => RefSelling(it).sellingState = EndedWithSales)
    /\ ParseFloat(RefPriceText(it)).ok
    /\ ~ParseFloat(RefPriceText(it)).f.nan
    /\ ParseFloat(RefPriceText(it)).f.v > 0

\* what an output element shows of the record it came from
SameRecord(o, it) ==
    IF f_mode = "completed"
    THEN o = ParseFloat(RefPriceText(it)).f.v
    ELSE o.id = it.itemId.val /\ o.title = RefTitle(it)

\* out is a subsequence of src: its elements are those of src at increasing
\* positions
RECURSIVE ComesInOrder(_, _)
ComesInOrder(out, src) ==
    IF out = <<>> THEN TRUE
    ELSE IF src = <<>> THEN FALSE
    ELSE IF SameRecord(out[1], src[1]) THEN ComesInOrder(Tail(out), Tail(src))
    ELSE ComesInOrder(out, Tail(src))

RefKeeps(it) == ~RefExcluded(it)

\* C6: one malformed record in a batch is skipped and nothing else: the call
\* does not fail, and every well-formed record that passes the checks is in
\* the output.
C6_BadRecordSkipped ==
    f_pc = "out" =>
        /\ ~f_out.raised
        /\ \A i \in DOMAIN f_items :
               RefPasses(f_items[i]) =>
                   \E k \in DOMAIN f_out.out : SameRecord(f_out.out[k], f_items[i])

\* C10: a record whose currency differs from the requested one, or whose
\* lower-cased title contains a parsed disallowed term, is not in the output
\* of either fetch function, and the output keeps the upstream order.
C10_ExcludedAndOrdered ==
    (f_pc = "out" /\ ~f_out.raised) =>
        /\ \A i \in DOMAIN f_items :
               RefExcluded(f_items[i]) =>
                   \A k \in DOMAIN f_out.out : ~SameRecord(f_out.out[k], f_items[i])
        /\ ComesInOrder(f_out.out, SelectSeq(f_items, RefKeeps))

\* two survivors around a record excluded for its upper-case title
C10_Witness ==
    /\ f_pc = "out" /\ ~f_out.raised /\ f_exclude = ExcludeText
    /\ Len(f_out.out) = 2
    /\ \E i \in DOMAIN f_items :
           f_items[i].title = TitleGraded /\ RefSelling(f_items[i]).currencyId = f_currency

\* ---- the estimator contract
Below(s, x) == Cardinality({i \in DOMAIN s : s[i] < x})
UpTo(s, x) == Cardinality({i \in DOMAIN s : s[i] <= x})
\* the k-th smallest element
Kth(s, k) == CHOOSE x \in {s[i] : i \in DOMAIN s} : Below(s, x) < k /\ k <= UpTo(s, x)

RECURSIVE KthSum(_, _, _)
KthSum(s, lo, hi) == IF lo > hi THEN 0 ELSE Kth(s, lo) + KthSum(s, lo + 1, hi)

RefMedian(s) ==
    IF Len(s) % 2 = 1 THEN Rat(Kth(s, (Len(s) + 1) \div 2), 1)
    ELSE Rat(Kth(s, Len(s) \div 2) + Kth(s, (Len(s) \div 2) + 1), 2)

\* max(1, floor(n * 0.15))
RefTrim(n) ==
    Max(1, CHOOSE t \in 0..n : 100 * t <= 15 * n /\ 15 * n < 100 * (t + 1))

RefEstimate(s) ==
    IF Len(s) = 0 THEN Absent
    ELSE IF Len(s) <= 5 THEN RefMedian(s)
    ELSE Rat(KthSum(s, RefTrim(Len(s)) + 1, Len(s) - RefTrim(Len(s))),
             Len(s) - 2 * RefTrim(Len(s)))

RatEq(a, b) == a.present = b.present /\ a.num * b.den = b.num * a.den

\* C7: trimmed_mean equals the reference estimator: absent for the empty
\* sequence, the median for 1..5 prices, and for 6 or more the mean of the
\* sorted prices with max(1, floor(n * 0.15)) removed from each end.
C7_MatchesReference ==
    est_pc = "out" => RatEq(est_out, RefEstimate(est_in))

\* seven prices of 10.00 and one of 100.00 give 10.00
C7_Witness ==
    /\ est_pc = "out"
    /\ est_in = <<1000, 1000, 1000, 10000, 1000, 1000, 1000, 1000>>
    /\ RatEq(est_out, Rat(1000, 1))

\* Of every sequence of 6 or more prices the trimmed core holds at least 3:
\* the branch of trimmed_mean for a smaller core is taken for no input.
CoreNeverSmall ==
    (est_pc = "in" /\ Len(est_in) >= MedianBelow) =>
        Len(est_in) - 2 * Trim(Len(est_in)) >= MinCore

\* C9: a fetch that fails is the last event of its invocation (no retry, no
\* further fetch), the invocation ends in the failure outcome, and no result
\* is handed to the caller.
C9_FailureEndsInvocation ==
    \A i \in DOMAIN calls :
        calls[i] \in {"completed:error", "active:error"} =>
            /\ i = Len(calls)
            /\ Count("completed:call") <= 1
            /\ Count("active:call") <= 1
            /\ pc = "returned"
            /\ outcome = "error"
            /\ ~results.present

C9_Witness ==
    calls = <<"completed:call", "completed:return", "active:call", "active:error">>

====
